---- MODULE Spec2Model ----
(***************************************************************************)
(* Model of SAI/sai_api_gen.py: the P4 runtime description to SAI API      *)
(* translation (key type resolution, action extraction, table             *)
(* classification) and the command line sequence around it.               *)
(*                                                                         *)
(* Python strings are TLA+ strings; TLC evaluates Len, SubSeq and \o on    *)
(* them, so split, replace, lower and "in" are modelled character by       *)
(* character.  A raised Python exception is the value of `err`.            *)
(***************************************************************************)
EXTENDS Integers, Sequences, FiniteSets, TLC

VARIABLES
    pc,            \* position in the module-level sequence (lines 247-272)
    args,          \* parsed command line: apiname, ignore_tables
    file_exists,   \* os.path.isfile(args.filepath)
    sai_exists,    \* os.path.exists('./SAI')
    json_program,  \* the loaded program document
    all_actions,   \* generate_sai_api: result of extract_action_data
    idx,           \* generate_sai_api: number of tables the loop has consumed
    sai_tables,    \* generate_sai_api: accumulator of table descriptors
    sai_api,       \* the returned model with app_name attached
    err,           \* "none" or the exception / exit that ended the run
    cloned,        \* Repo.clone_from has run
    written,       \* paths write_sai_files has written
    printed,       \* the model was dumped to stdout
    tpc,           \* resolver harness: "input" or "resolved"
    key_size,      \* resolver harness: bit width
    key_header,    \* resolver harness: header hint
    key_field,     \* resolver harness: field hint
    sai_type       \* resolver harness: <<mode, result>>

vars == <<pc, args, file_exists, sai_exists, json_program, all_actions, idx,
          sai_tables, sai_api, err, cloned, written, printed,
          tpc, key_size, key_header, key_field, sai_type>>

cliVars == <<pc, args, file_exists, sai_exists, json_program, all_actions, idx,
             sai_tables, sai_api, err, cloned, written, printed>>

typeVars == <<tpc, key_size, key_header, key_field, sai_type>>

----------------------------------------------------------------------------
(* String primitives of Python used by the source.                         *)

NOACTION == "NoAction"

ValueError == "ValueError"

KeyError == "KeyError"

Char(s, i) == SubSeq(s, i, i)

\* Python: sub in s
IsIn(sub, s) ==
    \E i \in 1..(Len(s) - Len(sub) + 1) : SubSeq(s, i, i + Len(sub) - 1) = sub

HasSep(s, sep) == \E i \in 1..Len(s) : Char(s, i) = sep

FirstSep(s, sep) ==
    CHOOSE i \in 1..Len(s) :
        Char(s, i) = sep /\ \A j \in 1..(i - 1) : Char(s, j) # sep

\* Python: s.split(sep) for a one-character separator
RECURSIVE Split(_, _)
Split(s, sep) ==
    IF HasSep(s, sep)
    THEN LET i == FirstSep(s, sep)
         IN  <<SubSeq(s, 1, i - 1)>> \o Split(SubSeq(s, i + 1, Len(s)), sep)
    ELSE <<s>>

\* Python: s.split(sep, 1)
SplitOnce(s, sep) ==
    IF HasSep(s, sep)
    THEN LET i == FirstSep(s, sep)
         IN  <<SubSeq(s, 1, i - 1), SubSeq(s, i + 1, Len(s))>>
    ELSE <<s>>

\* Python: s.replace(a, b) for one-character a and b
RECURSIVE Replace(_, _, _)
Replace(s, a, b) ==
    IF Len(s) = 0 THEN s
    ELSE (IF Char(s, 1) = a THEN b ELSE Char(s, 1))
         \o Replace(SubSeq(s, 2, Len(s)), a, b)

UpperChars == "ABCDEFGHIJKLMNOPQRSTUVWXYZ"

LowerChars == "abcdefghijklmnopqrstuvwxyz"

LowerChar(c) ==
    IF \E i \in 1..Len(UpperChars) : Char(UpperChars, i) = c
    THEN Char(LowerChars, CHOOSE i \in 1..Len(UpperChars) : Char(UpperChars, i) = c)
    ELSE c

\* Python: s.lower()
RECURSIVE Lower(_)
Lower(s) ==
    IF Len(s) = 0 THEN s
    ELSE LowerChar(Char(s, 1)) \o Lower(SubSeq(s, 2, Len(s)))

Last(seq) == seq[Len(seq)]

----------------------------------------------------------------------------
(* Key type resolvers, lines 25-75.  The result is the type tag, or        *)
(* ValueError when the function raises.                                    *)

\* variant: the 8-bit band excludes its upper edge
get_sai_key_type_lt8(size, header, field) ==
    IF size = 1 THEN "bool"
    ELSE IF size < 8 THEN "sai_uint8_t"
    ELSE IF size <= 16 THEN "sai_uint16_t"
    ELSE IF size = 32 /\ (IsIn("addr", field) \/ IsIn("ip", header))
         THEN "sai_ip_address_t"
    ELSE IF size <= 32 THEN "sai_uint32_t"
    ELSE IF size = 48 /\ (IsIn("addr", field) \/ IsIn("mac", header))
         THEN "sai_mac_t"
    ELSE IF size <= 64 THEN "sai_uint64_t"
    ELSE ValueError

\* variant: a 32 or 48 bit value without its hint is refused
get_sai_key_type_strict(size, header, field) ==
    IF size = 1 THEN "bool"
    ELSE IF size <= 8 THEN "sai_uint8_t"
    ELSE IF size <= 16 THEN "sai_uint16_t"
    ELSE IF size = 32
         THEN (IF IsIn("addr", field) \/ IsIn("ip", header)
               THEN "sai_ip_address_t" ELSE ValueError)
    ELSE IF size <= 32 THEN "sai_uint32_t"
    ELSE IF size = 48
         THEN (IF IsIn("addr", field) \/ IsIn("mac", header)
               THEN "sai_mac_t" ELSE ValueError)
    ELSE IF size <= 64 THEN "sai_uint64_t"
    ELSE ValueError

get_sai_key_type(size, header, field) ==
    IF size = 1 THEN "bool"
    ELSE IF size <= 8 THEN "sai_uint8_t"
    ELSE IF size <= 16 THEN "sai_uint16_t"
    ELSE IF size = 32 /\ (IsIn("addr", field) \/ IsIn("ip", header))
         THEN "sai_ip_address_t"
    ELSE IF size <= 32 THEN "sai_uint32_t"
    ELSE IF size = 48 /\ (IsIn("addr", field) \/ IsIn("mac", header))
         THEN "sai_mac_t"
    ELSE IF size <= 64 THEN "sai_uint64_t"
    ELSE ValueError

get_sai_lpm_type(size, header, field) ==
    IF size = 32 /\ (IsIn("addr", field) \/ IsIn("ip", header))
    THEN "sai_ip_prefix_t"
    ELSE ValueError

get_sai_list_type(size, header, field) ==
    IF size <= 8 THEN "sai_u8_list_t"
    ELSE IF size <= 16 THEN "sai_u16_list_t"
    ELSE IF size = 32 /\ (IsIn("addr", field) \/ IsIn("ip", header))
         THEN "sai_ip_address_list_t"
    ELSE IF size <= 32 THEN "sai_u32_list_t"
    ELSE IF size <= 64 THEN "sai_u64_list_t"
    ELSE ValueError

get_sai_range_list_type(size, header, field) ==
    IF size <= 8 THEN "sai_u8_range_list_t"
    ELSE IF size <= 16 THEN "sai_u16_range_list_t"
    ELSE IF size = 32 /\ (IsIn("addr", field) \/ IsIn("ip", header))
         THEN "sai_ipaddr_range_list_t"
    ELSE IF size <= 32 THEN "sai_u32_range_list_t"
    ELSE IF size <= 64 THEN "sai_u64_range_list_t"
    ELSE ValueError

----------------------------------------------------------------------------
(* get_sai_key_data, lines 78-108.  The result is [err, data]: err is      *)
(* "none" and data the key descriptor, or err is the exception raised.     *)

Raise(e) == [err |-> e, data |-> <<>>]

Return(d) == [err |-> "none", data |-> d]

get_sai_key_data(key) ==
    LET parts     == Split(key.name, ":")
        key_tuple == Split(parts[1], ".")
        header    == IF Len(key_tuple) = 3 THEN key_tuple[2] ELSE key_tuple[1]
        field     == IF Len(key_tuple) = 3 THEN key_tuple[3] ELSE key_tuple[2]
        size      == key.bitwidth
        match_type ==
            IF "otherMatchType" \in DOMAIN key THEN Lower(key.otherMatchType)
            ELSE Lower(key.matchType)
        base      == [sai_key_name |-> parts[2], match_type |-> match_type]
        Typed(tag, t) ==
            IF t = ValueError THEN Raise(ValueError)
            ELSE Return(base @@ (tag :> t))
    IN  IF Len(parts) # 2 THEN Raise(ValueError)
        ELSE IF Len(key_tuple) \notin {2, 3} THEN Raise(ValueError)
        ELSE IF ~("otherMatchType" \in DOMAIN key \/ "matchType" \in DOMAIN key)
             THEN Raise(ValueError)
        ELSE IF match_type = "exact"
             THEN Typed("sai_key_type", get_sai_key_type(size, header, field))
        ELSE IF match_type = "lpm"
             THEN Typed("sai_lpm_type", get_sai_lpm_type(size, header, field))
        ELSE IF match_type = "list"
             THEN Typed("sai_list_type", get_sai_list_type(size, header, field))
        ELSE IF match_type = "range_list"
             THEN Typed("sai_range_list_type",
                        get_sai_range_list_type(size, header, field))
        ELSE Raise(ValueError)

----------------------------------------------------------------------------
(* extract_action_data, lines 111-127.                                     *)

\* lines 118-125: the typed parameter list of one action
action_params(action) ==
    IF "params" \in DOMAIN action
    THEN [i \in 1..Len(action.params) |->
            [id   |-> action.params[i].id,
             name |-> action.params[i].name,
             type |-> get_sai_key_type(action.params[i].bitwidth,
                                       action.params[i].name,
                                       action.params[i].name)]]
    ELSE <<>>

\* lines 115-126: the descriptor stored under the action's id
action_descriptor(action) ==
    [id     |-> action.preamble.id,
     name   |-> Last(Split(action.preamble.name, ".")),
     params |-> action_params(action)]

\* variant: an action whose parameter does not resolve is left out of the map
extract_action_data_skip(program) ==
    LET acts == program.actions
        Good(i) ==
            \A j \in 1..Len(action_params(acts[i])) :
                action_params(acts[i])[j].type # ValueError
        ids  == {acts[i].preamble.id : i \in {k \in 1..Len(acts) : Good(k)}}
        LastWith(id) ==
            CHOOSE i \in 1..Len(acts) :
                /\ acts[i].preamble.id = id
                /\ Good(i)
                /\ \A j \in (i + 1)..Len(acts) :
                      acts[j].preamble.id = id => ~Good(j)
    IN  Return([id \in ids |-> action_descriptor(acts[LastWith(id)])])

\* the dictionary: a later action with the same id replaces an earlier one
extract_action_data(program) ==
    LET acts == program.actions
        ids  == {acts[i].preamble.id : i \in 1..Len(acts)}
        LastWith(id) ==
            CHOOSE i \in 1..Len(acts) :
                /\ acts[i].preamble.id = id
                /\ \A j \in (i + 1)..Len(acts) : acts[j].preamble.id # id
        raises ==
            \E i \in 1..Len(acts) :
                \E j \in 1..Len(action_params(acts[i])) :
                    action_params(acts[i])[j].type = ValueError
    IN  IF raises THEN Raise(ValueError)
        ELSE Return([id \in ids |-> action_descriptor(acts[LastWith(id)])])

----------------------------------------------------------------------------
(* generate_sai_api, lines 130-166: the body of the loop over the tables.  *)

\* line 157: more keys than this make a table an object
ObjectKeyThreshold == 5

\* lines 139-140: the derived name, or ValueError when the name has no dot
table_name_of(table) == SplitOnce(table.preamble.name, ".")

\* line 142: x in ignore_tables
InList(x, list) == \E i \in 1..Len(list) : list[i] = x

\* variant: the dots of the table name are kept
derived_name_raw(table_name) == table_name

\* line 140
derived_name(table_name) == Replace(table_name, ".", "_")

\* variant: five keys already make an object
classify_ge(table_name, name, keys, actions) ==
    IF Len(keys) = 1
       /\ keys[1].sai_key_name = Last(Split(table_name, ".")) \o "_id"
    THEN [keys |-> <<>>, actions |-> actions, name |-> name, is_object |-> "true"]
    ELSE IF Len(keys) >= ObjectKeyThreshold
    THEN [keys |-> keys, actions |-> actions, name |-> name, is_object |-> "true"]
    ELSE [keys |-> keys, actions |-> actions, name |-> name \o "_entry",
          is_object |-> "false"]

\* variant: the id key is looked for under the derived name
classify_derived_id(table_name, name, keys, actions) ==
    IF Len(keys) = 1 /\ keys[1].sai_key_name = name \o "_id"
    THEN [keys |-> <<>>, actions |-> actions, name |-> name, is_object |-> "true"]
    ELSE IF Len(keys) > ObjectKeyThreshold
    THEN [keys |-> keys, actions |-> actions, name |-> name, is_object |-> "true"]
    ELSE [keys |-> keys, actions |-> actions, name |-> name \o "_entry",
          is_object |-> "false"]

\* lines 153-161: classification of a table whose keys and actions resolved
classify(table_name, name, keys, actions) ==
    IF Len(keys) = 1
       /\ keys[1].sai_key_name = Last(Split(table_name, ".")) \o "_id"
    THEN [keys |-> <<>>, actions |-> actions, name |-> name, is_object |-> "true"]
    ELSE IF Len(keys) > ObjectKeyThreshold
    THEN [keys |-> keys, actions |-> actions, name |-> name, is_object |-> "true"]
    ELSE [keys |-> keys, actions |-> actions, name |-> name \o "_entry",
          is_object |-> "false"]

\* variant: every referenced descriptor is kept
table_actions_all(table, actions_map) ==
    [i \in 1..Len(table.actionRefs) |-> actions_map[table.actionRefs[i].id]]

\* lines 148-151: the referenced descriptors, NoAction left out
table_actions(table, actions_map) ==
    LET refs     == table.actionRefs
        resolved == [i \in 1..Len(refs) |-> actions_map[refs[i].id]]
        Keep(a)  == a.name # NOACTION
    IN  SelectSeq(resolved, Keep)

\* variant: a table with a match field that does not resolve is passed over
sai_table_data_isolating(table, actions_map, ignore_tables) ==
    LET split      == table_name_of(table)
        table_name == split[2]
        name       == derived_name(table_name)
        fields     == table.matchFields
        keyres     == [i \in 1..Len(fields) |-> get_sai_key_data(fields[i])]
        keys       == [i \in 1..Len(fields) |-> keyres[i].data]
        refs       == table.actionRefs
    IN  IF Len(split) # 2 THEN [kind |-> "raise", err |-> ValueError, data |-> <<>>]
        ELSE IF InList(name, ignore_tables)
             THEN [kind |-> "continue", err |-> "none", data |-> <<>>]
        ELSE IF \E i \in 1..Len(fields) : keyres[i].err # "none"
             THEN [kind |-> "continue", err |-> "none", data |-> <<>>]
        ELSE IF \E i \in 1..Len(refs) : refs[i].id \notin DOMAIN actions_map
             THEN [kind |-> "raise", err |-> KeyError, data |-> <<>>]
        ELSE [kind |-> "append", err |-> "none",
              data |-> classify(table_name, name, keys,
                                table_actions(table, actions_map))]

\* one iteration, lines 136-163: kind is "continue" (line 143), "raise" or
\* "append" (line 163)
sai_table_data(table, actions_map, ignore_tables) ==
    LET split      == table_name_of(table)
        table_name == split[2]
        name       == derived_name(table_name)
        fields     == table.matchFields
        keyres     == [i \in 1..Len(fields) |-> get_sai_key_data(fields[i])]
        keys       == [i \in 1..Len(fields) |-> keyres[i].data]
        refs       == table.actionRefs
    IN  IF Len(split) # 2 THEN [kind |-> "raise", err |-> ValueError, data |-> <<>>]
        ELSE IF InList(name, ignore_tables)
             THEN [kind |-> "continue", err |-> "none", data |-> <<>>]
        ELSE IF \E i \in 1..Len(fields) : keyres[i].err # "none"
             THEN [kind |-> "raise", err |-> ValueError, data |-> <<>>]
        ELSE IF \E i \in 1..Len(refs) : refs[i].id \notin DOMAIN actions_map
             THEN [kind |-> "raise", err |-> KeyError, data |-> <<>>]
        ELSE [kind |-> "append", err |-> "none",
              data |-> classify(table_name, name, keys,
                                table_actions(table, actions_map))]

\* line 163
append_table_dedup(tables, d) ==
    IF \E i \in 1..Len(tables) : tables[i].name = d.name
    THEN tables ELSE Append(tables, d)

append_table(tables, d) == Append(tables, d)

----------------------------------------------------------------------------
(* Inputs: the program documents and command lines the runs are drawn from. *)

\* most match fields of one table of the input
MaxFields == 6

\* most action references of one table of the input
MaxRefs == 3

\* most tables of a program that has several
MaxTables == 2

\* widest key or parameter given to the resolvers
MaxWidth == 66

Key(name, bw, mt) == [name |-> name, bitwidth |-> bw, matchType |-> mt]

OtherKey(name, bw, omt) == [name |-> name, bitwidth |-> bw, otherMatchType |-> omt]

BareKey(name, bw) == [name |-> name, bitwidth |-> bw]

MatchTags ==
    {<<"matchType", "EXACT">>, <<"matchType", "LPM">>, <<"matchType", "TERNARY">>,
     <<"otherMatchType", "List">>, <<"otherMatchType", "range_list">>,
     <<"none", "">>}

TaggedKey(name, bw, tag) ==
    IF tag[1] = "matchType" THEN Key(name, bw, tag[2])
    ELSE IF tag[1] = "otherMatchType" THEN OtherKey(name, bw, tag[2])
    ELSE BareKey(name, bw)

KeyNames ==
    {"hdr.ipv4.port_id:port_id", "meta.b_id:b_id", "meta.a_b_id:a_b_id",
     "hdr.ipv4.dst_addr:dip"}

KeyWidths == {16, 32, 65}

KeySet == {TaggedKey(n, w, t) : n \in KeyNames, w \in KeyWidths, t \in MatchTags}

\* names that do not unpack at line 80 or at lines 82-85
BadNameKeys == {Key("port_id", 16, "EXACT"), Key("a.b.c.d:port_id", 16, "EXACT")}

FillKey == Key("meta.vni:vni", 24, "EXACT")

Fill(n) == [i \in 1..n |-> FillKey]

MixKeys ==
    {Key("hdr.ipv4.port_id:port_id", 16, "EXACT"),
     BareKey("hdr.ipv4.dst_addr:dip", 32),
     Key("meta.b_id:b_id", 16, "LPM")}

FieldSeqs ==
    {<<k>> : k \in KeySet \cup BadNameKeys}
    \cup {Fill(n) : n \in 0..MaxFields}
    \cup {Fill(p) \o <<k>> \o Fill(s) :
            k \in MixKeys, p \in {0, 1}, s \in {1, MaxFields - 1}}
    \cup {Fill(1) \o <<k>> : k \in MixKeys}

Ref(id) == [id |-> id]

Param(id, name, bw) == [id |-> id, name |-> name, bitwidth |-> bw]

Action(id, name, params) ==
    [preamble |-> [id |-> id, name |-> name], params |-> params]

ActionNoParams(id, name) == [preamble |-> [id |-> id, name |-> name]]

SetPort == Action(1, "ingress.set_port",
                  <<Param(1, "port", 16), Param(2, "dst_addr", 32)>>)

NoActionBare == ActionNoParams(2, "NoAction")

NoActionQualified == Action(3, "ingress.sub.NoAction", <<>>)

Drop == Action(1, "ingress.drop", <<Param(1, "mac_addr", 48)>>)

Wide == Action(4, "ingress.wide", <<Param(1, "x", 65)>>)

WideSecond == Action(5, "ingress.wide2", <<Param(1, "flag", 1), Param(2, "y", 128)>>)

GoodActions == <<SetPort, NoActionBare, NoActionQualified>>

ActionLists ==
    {GoodActions, <<SetPort, Drop, NoActionBare>>, <<>>, <<SetPort, Wide>>,
     <<Wide, SetPort, NoActionBare>>, GoodActions \o <<WideSecond>>}

RefIds == {1, 2, 3, 7}

RECURSIVE SeqsUpTo(_, _)
SeqsUpTo(S, n) ==
    IF n = 0 THEN {<<>>}
    ELSE LET shorter == SeqsUpTo(S, n - 1)
         IN  shorter \cup {Append(q, x) : q \in shorter, x \in S}

RefSeqs == {[i \in 1..Len(q) |-> Ref(q[i])] : q \in SeqsUpTo(RefIds, MaxRefs)}

Table(name, fields, refs) ==
    [preamble |-> [name |-> name], matchFields |-> fields, actionRefs |-> refs]

TableNames == {"ingress.port", "ingress.a.b", "port"}

Program(tables, actions) == [tables |-> tables, actions |-> actions]

\* one table, every shape of match field list
KeyPrograms ==
    {Program(<<Table(n, f, <<Ref(1)>>)>>, GoodActions) :
        n \in TableNames, f \in FieldSeqs}

\* one table, every list of action references against every action list
RefPrograms ==
    {Program(<<Table("ingress.port", Fill(1), r)>>, a) :
        r \in RefSeqs, a \in ActionLists}

SomeTables ==
    {Table("ingress.port", <<Key("hdr.ipv4.port_id:port_id", 16, "EXACT")>>,
           <<Ref(1), Ref(2)>>),
     Table("ingress.a.b", Fill(2), <<Ref(1)>>),
     Table("ingress.many", Fill(ObjectKeyThreshold + 1), <<>>),
     Table("ingress.port_entry", Fill(1), <<Ref(3), Ref(1)>>),
     Table("ingress.port", Fill(2), <<Ref(2)>>),
     Table("ingress.port", <<BareKey("hdr.ipv4.dst_addr:dip", 32)>>, <<Ref(1)>>),
     Table("ingress.a.b", <<Key("hdr.ipv4.dst_addr:dip", 32, "TERNARY")>>, <<>>),
     Table("ingress.c", <<Key("meta.b_id:b_id", 65, "EXACT")>>, <<Ref(1)>>),
     Table("ingress.c", Fill(1), <<Ref(7)>>)}

\* several tables
TablePrograms ==
    {Program(t, a) :
        t \in SeqsUpTo(SomeTables, MaxTables),
        a \in {GoodActions, <<SetPort, Wide>>}}

Programs == KeyPrograms \cup RefPrograms \cup TablePrograms

IgnoreArgs == {"", "port", "port_entry", "a_b,port"}

HeaderHints == {"ipv4", "mac_hdr", "meta", "IPV4"}

FieldHints == {"dst_addr", "dst", "ip", "mac"}

----------------------------------------------------------------------------
(* The run: the module-level sequence, lines 238-272, with                 *)
(* generate_sai_api unfolded into its steps.                               *)

CliOff ==
    /\ pc = "off"
    /\ args = [apiname |-> "", ignore_tables |-> ""]
    /\ file_exists = FALSE
    /\ sai_exists = FALSE
    /\ json_program = <<>>
    /\ all_actions = <<>>
    /\ idx = 0
    /\ sai_tables = <<>>
    /\ sai_api = <<>>
    /\ err = "none"
    /\ cloned = FALSE
    /\ written = {}
    /\ printed = FALSE

TypeOff ==
    /\ tpc = "off"
    /\ key_size = 0
    /\ key_header = ""
    /\ key_field = ""
    /\ sai_type = <<>>

\* lines 238-245: the arguments are parsed, nothing else has run
Init ==
    /\ pc = "start"
    /\ \E ig \in IgnoreArgs : args = [apiname |-> "dash", ignore_tables |-> ig]
    /\ file_exists \in BOOLEAN
    /\ sai_exists \in BOOLEAN
    /\ json_program = <<>>
    /\ all_actions = <<>>
    /\ idx = 0
    /\ sai_tables = <<>>
    /\ sai_api = <<>>
    /\ err = "none"
    /\ cloned = FALSE
    /\ written = {}
    /\ printed = FALSE
    /\ TypeOff

\* lines 247-249
CheckFile ==
    /\ pc = "start"
    /\ IF file_exists
       THEN pc' = "check_dir" /\ err' = err
       ELSE pc' = "exit" /\ err' = "exit(1)"
    /\ UNCHANGED <<args, file_exists, sai_exists, json_program, all_actions, idx,
                   sai_tables, sai_api, cloned, written, printed>>
    /\ UNCHANGED typeVars

\* lines 251-253
CheckDir ==
    /\ pc = "check_dir"
    /\ IF sai_exists
       THEN pc' = "exit" /\ err' = "exit(1)"
       ELSE pc' = "load" /\ err' = err
    /\ UNCHANGED <<args, file_exists, sai_exists, json_program, all_actions, idx,
                   sai_tables, sai_api, cloned, written, printed>>
    /\ UNCHANGED typeVars

\* lines 258-259
LoadProgram ==
    /\ pc = "load"
    /\ \E p \in Programs : json_program' = p
    /\ pc' = "extract"
    /\ UNCHANGED <<args, file_exists, sai_exists, all_actions, idx, sai_tables,
                   sai_api, err, cloned, written, printed>>
    /\ UNCHANGED typeVars

\* variant: a failure of the extraction is recorded and the run goes on
ExtractActions_swallow ==
    /\ pc = "extract"
    /\ LET r == extract_action_data(json_program)
       IN  /\ pc' = "tables"
           /\ all_actions' = r.data
           /\ idx' = 0
           /\ sai_tables' = <<>>
           /\ err' = IF r.err # "none" THEN r.err ELSE err
    /\ UNCHANGED <<args, file_exists, sai_exists, json_program, sai_api, cloned,
                   written, printed>>
    /\ UNCHANGED typeVars

\* lines 131-134: the action map, then the empty accumulator
ExtractActions ==
    /\ pc = "extract"
    /\ LET r == extract_action_data(json_program)
       IN  IF r.err # "none"
           THEN /\ pc' = "failed"
                /\ err' = r.err
                /\ UNCHANGED <<all_actions, idx, sai_tables>>
           ELSE /\ pc' = "tables"
                /\ all_actions' = r.data
                /\ idx' = 0
                /\ sai_tables' = <<>>
                /\ err' = err
    /\ UNCHANGED <<args, file_exists, sai_exists, json_program, sai_api, cloned,
                   written, printed>>
    /\ UNCHANGED typeVars

\* lines 135-163: one iteration of the loop over the tables
ProcessTable ==
    /\ pc = "tables"
    /\ idx < Len(json_program.tables)
    /\ LET r == sai_table_data(json_program.tables[idx + 1], all_actions,
                               Split(args.ignore_tables, ","))
       IN  IF r.kind = "raise"
           THEN /\ pc' = "failed"
                /\ err' = r.err
                /\ UNCHANGED <<idx, sai_tables>>
           ELSE /\ pc' = pc
                /\ err' = err
                /\ idx' = idx + 1
                /\ sai_tables' = IF r.kind = "append"
                                 THEN append_table(sai_tables, r.data)
                                 ELSE sai_tables
    /\ UNCHANGED <<args, file_exists, sai_exists, json_program, all_actions,
                   sai_api, cloned, written, printed>>
    /\ UNCHANGED typeVars

\* lines 165-166 and 262: the model is returned and named
ReturnModel ==
    /\ pc = "tables"
    /\ idx = Len(json_program.tables)
    /\ sai_api' = [tables |-> sai_tables, app_name |-> args.apiname]
    /\ pc' = "clone"
    /\ UNCHANGED <<args, file_exists, sai_exists, json_program, all_actions, idx,
                   sai_tables, err, cloned, written, printed>>
    /\ UNCHANGED typeVars

\* line 266: the clone succeeds, or git raises
CloneRepo ==
    /\ pc = "clone"
    /\ \/ cloned' = TRUE /\ pc' = "write" /\ err' = err
       \/ cloned' = cloned /\ pc' = "failed" /\ err' = "GitCommandError"
    /\ UNCHANGED <<args, file_exists, sai_exists, json_program, all_actions, idx,
                   sai_tables, sai_api, written, printed>>
    /\ UNCHANGED typeVars

\* lines 169-233: the four files write_sai_files writes
header_paths(api) ==
    {"./SAI/experimental/saiexperimental" \o api.app_name \o ".h",
     "./SAI/experimental/saiextensions.h",
     "./SAI/experimental/saitypesextensions.h",
     "./SAI/inc/saiobject.h"}

\* line 269
WriteSaiFiles ==
    /\ pc = "write"
    /\ written' = header_paths(sai_api)
    /\ pc' = "print"
    /\ UNCHANGED <<args, file_exists, sai_exists, json_program, all_actions, idx,
                   sai_tables, sai_api, err, cloned, printed>>
    /\ UNCHANGED typeVars

\* lines 271-272
PrintSaiLib ==
    /\ pc = "print"
    /\ \E print_sai_lib \in BOOLEAN : printed' = print_sai_lib
    /\ pc' = "done"
    /\ UNCHANGED <<args, file_exists, sai_exists, json_program, all_actions, idx,
                   sai_tables, sai_api, err, cloned, written>>
    /\ UNCHANGED typeVars

Next ==
    \/ CheckFile
    \/ CheckDir
    \/ LoadProgram
    \/ ExtractActions
    \/ ProcessTable
    \/ ReturnModel
    \/ CloneRepo
    \/ WriteSaiFiles
    \/ PrintSaiLib

Spec == Init /\ [][Next]_vars

----------------------------------------------------------------------------
(* The resolvers on their own: one call of each on drawn inputs.           *)

InitType ==
    /\ CliOff
    /\ tpc = "input"
    /\ key_size \in 1..MaxWidth
    /\ key_header \in HeaderHints
    /\ key_field \in FieldHints
    /\ sai_type = <<>>

Resolve(mode, t) ==
    /\ tpc = "input"
    /\ tpc' = "resolved"
    /\ sai_type' = <<mode, t>>
    /\ UNCHANGED <<key_size, key_header, key_field>>
    /\ UNCHANGED cliVars

ResolveExact == Resolve("exact", get_sai_key_type(key_size, key_header, key_field))

ResolveLpm == Resolve("lpm", get_sai_lpm_type(key_size, key_header, key_field))

ResolveList == Resolve("list", get_sai_list_type(key_size, key_header, key_field))

ResolveRangeList ==
    Resolve("range_list", get_sai_range_list_type(key_size, key_header, key_field))

NextType == ResolveExact \/ ResolveLpm \/ ResolveList \/ ResolveRangeList

SpecType == InitType /\ [][NextType]_vars

----------------------------------------------------------------------------
(* Vocabulary of the properties, stated on the input document.             *)

Loaded == pc \notin {"off", "start", "check_dir", "load", "exit"}

\* generate_sai_api has returned its model
Returned == pc \in {"clone", "write", "print", "done"} \/ "tables" \in DOMAIN sai_api

Tables == IF Loaded THEN json_program.tables ELSE <<>>

Actions == IF Loaded THEN json_program.actions ELSE <<>>

IgnoreSet ==
    LET l == Split(args.ignore_tables, ",") IN {l[i] : i \in 1..Len(l)}

HasDot(t) == HasSep(t.preamble.name, ".")

\* the table name without its control block, dots replaced
ExpectedName(t) == Replace(SplitOnce(t.preamble.name, ".")[2], ".", "_")

\* the last segment of the table name
BaseName(t) == Last(Split(t.preamble.name, "."))

Excluded(t) == HasDot(t) /\ ExpectedName(t) \in IgnoreSet

NotExcluded(t) == ~Excluded(t)

\* the tables the loop has consumed, and those of them that are not excluded
Processed == SubSeq(Tables, 1, idx)

KeptSoFar == SelectSeq(Processed, NotExcluded)

Kept == SelectSeq(Tables, NotExcluded)

DeclaredName(k) == Last(Split(k.name, ":"))

KeyPath(k) == Split(Split(k.name, ":")[1], ".")

NameUnpacks(k) == Len(Split(k.name, ":")) = 2 /\ Len(KeyPath(k)) \in {2, 3}

HeaderOf(k) == KeyPath(k)[Len(KeyPath(k)) - 1]

FieldOf(k) == KeyPath(k)[Len(KeyPath(k))]

HasTag(k) == "otherMatchType" \in DOMAIN k \/ "matchType" \in DOMAIN k

KindOf(k) ==
    IF "otherMatchType" \in DOMAIN k THEN Lower(k.otherMatchType)
    ELSE Lower(k.matchType)

KnownKinds == {"exact", "lpm", "list", "range_list"}

IpHint(k) == IsIn("addr", FieldOf(k)) \/ IsIn("ip", HeaderOf(k))

\* the width is one the resolver of the field's kind accepts
WidthSupported(k) ==
    IF KindOf(k) = "lpm" THEN k.bitwidth = 32 /\ IpHint(k)
    ELSE k.bitwidth <= 64

\* the match field has no tag, an unrecognized kind or an unsupported width
MalformedField(k) ==
    \/ ~HasTag(k)
    \/ HasTag(k) /\ KindOf(k) \notin KnownKinds
    \/ HasTag(k) /\ KindOf(k) \in KnownKinds /\ NameUnpacks(k) /\ ~WidthSupported(k)

ActionIds == {Actions[i].preamble.id : i \in 1..Len(Actions)}

MissingRef(t) == \E i \in 1..Len(t.actionRefs) : t.actionRefs[i].id \notin ActionIds

MalformedTable(t) ==
    \/ \E i \in 1..Len(t.matchFields) : MalformedField(t.matchFields[i])
    \/ MissingRef(t)

\* the only match field of the table is its intrinsic id
IntrinsicId(t) ==
    /\ Len(t.matchFields) = 1
    /\ DeclaredName(t.matchFields[1]) = BaseName(t) \o "_id"

BadParam(a) ==
    /\ "params" \in DOMAIN a
    /\ \E j \in 1..Len(a.params) : a.params[j].bitwidth > 64

SomeBadParam == \E i \in 1..Len(Actions) : BadParam(Actions[i])

\* the action the program declares last under the id
Declared(id) ==
    Actions[CHOOSE i \in 1..Len(Actions) :
                /\ Actions[i].preamble.id = id
                /\ \A j \in (i + 1)..Len(Actions) : Actions[j].preamble.id # id]

\* the short name the program gives the action id
ShortName(id) == Last(Split(Declared(id).preamble.name, "."))

DeclaredParams(id) ==
    IF "params" \in DOMAIN Declared(id) THEN Declared(id).params ELSE <<>>

----------------------------------------------------------------------------
(* C1: every emitted descriptor is an object exactly when its table has    *)
(* one match field named <last segment>_id or more than five match fields; *)
(* the id case has no keys, the many-keys case keeps them all, and the     *)
(* name carries the added _entry suffix exactly when is_object is false.   *)
C1_Classification ==
    /\ Len(sai_tables) <= Len(KeptSoFar)
    /\ \A k \in 1..Len(sai_tables) :
        LET t == KeptSoFar[k]
            d == sai_tables[k]
            n == Len(t.matchFields)
        IN  /\ d.is_object \in {"true", "false"}
            /\ (d.is_object = "true") <=> (IntrinsicId(t) \/ n > 5)
            /\ IntrinsicId(t) => d.keys = <<>>
            /\ (~IntrinsicId(t) /\ n > 5) =>
                  /\ Len(d.keys) = n
                  /\ \A i \in 1..n :
                        d.keys[i].sai_key_name = DeclaredName(t.matchFields[i])
            /\ d.name = IF d.is_object = "false"
                        THEN ExpectedName(t) \o "_entry"
                        ELSE ExpectedName(t)

\* an id object and a many-keys object in one finished model
C1_Witness ==
    /\ pc = "done"
    /\ \E k \in 1..Len(sai_api.tables) :
          sai_api.tables[k].is_object = "true" /\ sai_api.tables[k].keys = <<>>
    /\ \E k \in 1..Len(sai_api.tables) :
          sai_api.tables[k].is_object = "true" /\ Len(sai_api.tables[k].keys) > 5

(* C2, as claimed: a malformed table at any position, excluded or not,     *)
(* keeps generate_sai_api from returning a model.                          *)
C2_AnyMalformedTableAborts ==
    (\E i \in 1..Len(Tables) : MalformedTable(Tables[i])) => ~Returned

(* C2, amended: a malformed table that is not excluded, at any position,   *)
(* keeps generate_sai_api from returning a model; the run ends failed      *)
(* once the loop reaches it.                                               *)
C2_MalformedKeptTableAborts ==
    (\E i \in 1..Len(Tables) : NotExcluded(Tables[i]) /\ MalformedTable(Tables[i]))
        => /\ ~Returned
           /\ ~cloned /\ written = {}
           /\ \A i \in 1..idx : ~(NotExcluded(Tables[i]) /\ MalformedTable(Tables[i]))

\* the second table is malformed: the run failed with one descriptor built
C2_Witness ==
    /\ pc = "failed"
    /\ idx = 1
    /\ Len(sai_tables) = 1
    /\ Len(Tables) = 2
    /\ MalformedTable(Tables[2])

(* C3: a loop iteration that goes on to the next table emits nothing       *)
(* exactly when the table's derived name, before any _entry suffix, is in  *)
(* the exclusion list; otherwise it emits one descriptor under that name.  *)
C3_ExcludedByDerivedName ==
    [][(pc = "tables" /\ pc' = "tables" /\ idx' = idx + 1) =>
          LET t == Tables[idx + 1]
          IN  IF ExpectedName(t) \in IgnoreSet
              THEN sai_tables' = sai_tables
              ELSE /\ Len(sai_tables') = Len(sai_tables) + 1
                   /\ SubSeq(sai_tables', 1, Len(sai_tables)) = sai_tables
                   /\ Last(sai_tables').name \in
                         {ExpectedName(t), ExpectedName(t) \o "_entry"}]_vars

\* 'port_entry' is excluded and the table derived as 'port' is emitted
C3_Witness ==
    /\ pc = "done"
    /\ "port_entry" \in IgnoreSet
    /\ \E i \in 1..Len(Tables) : ExpectedName(Tables[i]) = "port"
    /\ \E k \in 1..Len(sai_api.tables) : sai_api.tables[k].name = "port_entry"

(* C4: the action list of every emitted descriptor is the table's action   *)
(* references in order, each resolved in the action map, without those     *)
(* whose short name is NoAction; nothing named NoAction is listed.         *)
C4_ActionsWithoutNoAction ==
    \A k \in 1..Len(sai_tables) :
        k <= Len(KeptSoFar) /\
        LET refs == KeptSoFar[k].actionRefs
            ids  == [i \in 1..Len(refs) |-> refs[i].id]
            Exposed(id) == ShortName(id) # "NoAction"
            want == SelectSeq(ids, Exposed)
            got  == sai_tables[k].actions
        IN  /\ Len(got) = Len(want)
            /\ \A j \in 1..Len(got) :
                  /\ got[j].id = want[j]
                  /\ got[j] = all_actions[want[j]]
                  /\ got[j].name # "NoAction"

\* references to both NoAction actions around a real one leave the real one
C4_Witness ==
    /\ pc = "done"
    /\ Len(Tables) = 1
    /\ Tables[1].actionRefs = <<Ref(3), Ref(1), Ref(2)>>
    /\ Len(sai_api.tables) = 1
    /\ Len(sai_api.tables[1].actions) = 1
    /\ sai_api.tables[1].actions[1].name = "set_port"

(* C5: the returned model lists one descriptor per input table that is not *)
(* excluded, in input order, tables of equal derived name included.        *)
C5_OrderPreserved ==
    Returned =>
        /\ sai_api.tables = sai_tables
        /\ Len(sai_api.tables) = Len(Kept)
        /\ \A k \in 1..Len(Kept) :
              LET t == Kept[k]
                  d == sai_api.tables[k]
              IN  /\ d.name \in {ExpectedName(t), ExpectedName(t) \o "_entry"}
                  /\ Len(d.keys) = IF IntrinsicId(t) THEN 0 ELSE Len(t.matchFields)
                  /\ Len(d.actions) <= Len(t.actionRefs)

\* two different tables of one derived name, both emitted in input order
C5_Witness ==
    /\ pc = "done"
    /\ Len(Tables) = 2
    /\ ExpectedName(Tables[1]) = ExpectedName(Tables[2])
    /\ Len(Tables[1].matchFields) = 1
    /\ Len(Tables[2].matchFields) > 1
    /\ Len(sai_api.tables) = 2
    /\ sai_api.tables[1].name # sai_api.tables[2].name

(* C6: the clone and the header writes happen only after generate_sai_api  *)
(* returned a complete model; a run that raised in the translation has     *)
(* cloned nothing, written nothing and has no model.                       *)
C6_NoArtifactAfterError ==
    /\ (cloned \/ written # {} \/ printed) =>
          /\ "tables" \in DOMAIN sai_api
          /\ idx = Len(Tables)
          /\ err = "none"
    /\ err \in {ValueError, KeyError} =>
          /\ ~cloned
          /\ written = {}
          /\ ~printed
          /\ ~("tables" \in DOMAIN sai_api)
          /\ pc = "failed"

\* a run that failed in the second table, nothing cloned or written
C6_Witness ==
    /\ pc = "failed"
    /\ err \in {ValueError, KeyError}
    /\ idx = 1
    /\ ~cloned
    /\ written = {}

(* C7: the scalar resolver returns bool for width 1, 8-bit for 2..8,       *)
(* 16-bit for 9..16, the IP address type for 32 with 'ip' in the header or *)
(* 'addr' in the field, 32-bit for 17..32 otherwise, the MAC type for 48   *)
(* with 'addr' in the field or 'mac' in the header, 64-bit for every other *)
(* width of 33..64, and raises for every width above 64.                   *)
C7_ScalarBands ==
    (tpc = "resolved" /\ sai_type[1] = "exact") =>
        LET w   == key_size
            r   == sai_type[2]
            ip  == IsIn("ip", key_header) \/ IsIn("addr", key_field)
            mac == IsIn("addr", key_field) \/ IsIn("mac", key_header)
        IN  /\ w = 1 => r = "bool"
            /\ w \in 2..8 => r = "sai_uint8_t"
            /\ w \in 9..16 => r = "sai_uint16_t"
            /\ (w = 32 /\ ip) => r = "sai_ip_address_t"
            /\ (w \in 17..32 /\ ~(w = 32 /\ ip)) => r = "sai_uint32_t"
            /\ (w = 48 /\ mac) => r = "sai_mac_t"
            /\ (w \in 33..64 /\ ~(w = 48 /\ mac)) => r = "sai_uint64_t"
            /\ w > 64 => r = ValueError

\* 48 bits under a 'mac' header with a field that has no 'addr'
C7_Witness ==
    /\ tpc = "resolved"
    /\ sai_type = <<"exact", "sai_mac_t">>
    /\ key_size = 48
    /\ key_header = "mac_hdr"
    /\ key_field = "dst"

(* C8, as claimed: the scalar resolver raises for width 32 with neither    *)
(* 'addr' in the field nor 'ip' in the header, and for width 48 with       *)
(* neither 'addr' in the field nor 'mac' in the header.                    *)
C8_UnmatchedHintRaises ==
    (tpc = "resolved" /\ sai_type[1] = "exact") =>
        /\ (key_size = 32 /\ ~IsIn("addr", key_field) /\ ~IsIn("ip", key_header))
              => sai_type[2] = ValueError
        /\ (key_size = 48 /\ ~IsIn("addr", key_field) /\ ~IsIn("mac", key_header))
              => sai_type[2] = ValueError

(* C8, amended: the scalar resolver returns the 32-bit unsigned type for   *)
(* width 32 without its hint and the 64-bit unsigned type for width 48     *)
(* without its hint; it raises exactly for the widths above 64.            *)
C8_UnmatchedHintFallsBack ==
    (tpc = "resolved" /\ sai_type[1] = "exact") =>
        /\ (key_size = 32 /\ ~IsIn("addr", key_field) /\ ~IsIn("ip", key_header))
              => sai_type[2] = "sai_uint32_t"
        /\ (key_size = 48 /\ ~IsIn("addr", key_field) /\ ~IsIn("mac", key_header))
              => sai_type[2] = "sai_uint64_t"
        /\ (sai_type[2] = ValueError) <=> (key_size > 64)

\* 48 bits with no hint resolved to the 64-bit type
C8_Witness ==
    /\ tpc = "resolved"
    /\ sai_type = <<"exact", "sai_uint64_t">>
    /\ key_size = 48
    /\ key_header = "ipv4"
    /\ key_field = "ip"

\* the table the failed loop iteration was working on
FailedTable == Tables[idx + 1]

\* the run raised inside the loop over the tables
FailedInLoop ==
    /\ pc = "failed"
    /\ err \in {ValueError, KeyError}
    /\ ~SomeBadParam
    /\ idx < Len(Tables)

(* C9, as claimed: a table that is not excluded and whose only match field *)
(* is named <base>_id never fails on that field, whichever of the four     *)
(* match kinds and whatever width it declares.                             *)
C9_IdFieldNeverFails ==
    FailedInLoop =>
        ~ /\ HasDot(FailedTable)
          /\ NotExcluded(FailedTable)
          /\ IntrinsicId(FailedTable)
          /\ ~MissingRef(FailedTable)
          /\ NameUnpacks(FailedTable.matchFields[1])
          /\ HasTag(FailedTable.matchFields[1])
          /\ KindOf(FailedTable.matchFields[1]) \in KnownKinds

(* C9, amended: a table that is not excluded, whose only match field is    *)
(* named <base>_id and resolves under its match kind (a recognized kind    *)
(* and a width its resolver accepts) and whose action references are all   *)
(* in the action map, yields a descriptor with is_object 'true' and no     *)
(* keys, whichever of the four match kinds the field has.                  *)
C9_ResolvedIdFieldIsObject ==
    /\ FailedInLoop =>
        ~ /\ HasDot(FailedTable)
          /\ NotExcluded(FailedTable)
          /\ IntrinsicId(FailedTable)
          /\ ~MissingRef(FailedTable)
          /\ NameUnpacks(FailedTable.matchFields[1])
          /\ ~MalformedField(FailedTable.matchFields[1])
    /\ \A k \in 1..Len(sai_tables) :
          (k <= Len(KeptSoFar) /\ IntrinsicId(KeptSoFar[k])) =>
              /\ sai_tables[k].is_object = "true"
              /\ sai_tables[k].keys = <<>>
              /\ sai_tables[k].name = ExpectedName(KeptSoFar[k])

\* an id field matched by longest prefix, resolved, made the table an object
C9_Witness ==
    /\ pc = "done"
    /\ Len(Tables) = 1
    /\ NotExcluded(Tables[1])
    /\ IntrinsicId(Tables[1])
    /\ HasTag(Tables[1].matchFields[1])
    /\ KindOf(Tables[1].matchFields[1]) = "lpm"
    /\ Len(sai_api.tables) = 1
    /\ sai_api.tables[1].is_object = "true"
    /\ sai_api.tables[1].keys = <<>>

(* C10: the action map is complete before the first table is processed,    *)
(* every parameter typed by the scalar resolver with its name as both      *)
(* hints; a parameter that does not resolve fails the run with ValueError  *)
(* before any table is classified, referenced or not, excluded or not.     *)
C10_ActionMapFirst ==
    /\ (Loaded /\ SomeBadParam) =>
          /\ pc \in {"extract", "failed"}
          /\ pc = "failed" => err = ValueError
          /\ idx = 0
          /\ sai_tables = <<>>
          /\ ~Returned
    /\ (Loaded /\ pc # "extract" /\ ~SomeBadParam) =>
          /\ DOMAIN all_actions = ActionIds
          /\ \A id \in ActionIds :
                /\ all_actions[id].id = id
                /\ all_actions[id].name = ShortName(id)
                /\ Len(all_actions[id].params) = Len(DeclaredParams(id))
                /\ \A j \in 1..Len(DeclaredParams(id)) :
                      LET p == DeclaredParams(id)[j]
                      IN  all_actions[id].params[j] =
                              [id   |-> p.id,
                               name |-> p.name,
                               type |-> get_sai_key_type(p.bitwidth, p.name, p.name)]

\* a wide parameter of an action no table references, the only table excluded
C10_Witness ==
    /\ pc = "failed"
    /\ err = ValueError
    /\ idx = 0
    /\ SomeBadParam
    /\ Len(Tables) = 1
    /\ Excluded(Tables[1])
    /\ \A i \in 1..Len(Tables[1].actionRefs) :
          \A j \in 1..Len(Actions) :
              Actions[j].preamble.id = Tables[1].actionRefs[i].id => ~BadParam(Actions[j])

====
